---- MODULE Spec2Model ----
(***************************************************************************)
(* SearchOptimizer core (createSearchOptimizer) and its utilities          *)
(* (debounce, processInput, shouldPerformSearch, createAbortController).   *)
(*                                                                         *)
(* Strings are sequences of one-character strings.  Time is abstracted:    *)
(* the debounce timer is either armed (holding the arguments of the last   *)
(* debounced call) or not, and an armed timer may fire at any moment.      *)
(* Every executor call is a request; it settles in a later step, in any    *)
(* order with respect to the other requests and the caller's operations.   *)
(***************************************************************************)
EXTENDS Integers, Sequences, FiniteSets, TLC

\* ---------------------------------------------------------------- bounds
MaxLen == 2          \* longest raw input handed to setQuery
MaxDispatch == 2     \* executor invocations in one behaviour
DebounceDelay == 2   \* the delay handed to debounce, in clock ticks
MaxLateness == 1     \* ticks a due timer may wait before its callback runs
MaxCalls == 3        \* calls of the debounced function in one behaviour
MaxAxiosCalls == 3   \* execute calls on one axios executor in one behaviour

\* ------------------------------------------------------------- constants
Null == 0            \* null / undefined
Alphabet == {"A", " "}      \* characters of raw inputs
Chars == {"A", "a", " ", "-"}    \* characters of processed values
MinCharsValues == {1, 2}
\* the runtime defines AbortController (typeof AbortController !== 'undefined')
AbortControllerDefined == TRUE

RECURSIVE StringsUpTo(_)
StringsUpTo(n) ==
  IF n = 0 THEN {<<>>}
  ELSE LET S == StringsUpTo(n - 1)
       IN  S \cup {Append(s, c) : s \in {t \in S : Len(t) = n - 1}, c \in Alphabet}

RawInputs == StringsUpTo(MaxLen)

\* executor outcomes: resolve with a payload, or reject with an Error, with
\* an Error named 'AbortError', or with a value that is not an Error
Outcomes == {"resolve", "Error", "AbortError", "NonError"}

VARIABLES
  \* the first argument of createSearchOptimizer: "defined" for a
  \* SearchExecutor, "undefined" when it is missing
  executor,
  \* options (fixed at construction)
  minChars, trimInput, lowercaseInput, enableCancellation, inputProcessor,
  \* internal state of createSearchOptimizer
  currentQuery, previousQuery, searchResults, searchError, isLoading,
  currentAbortController,
  \* callback slots: Null (undefined) or the identity of the registered function
  onSearchStart, onSearchSuccess, onSearchError, onSearchCanceled,
  \* debounce closure: <<>> (no timer) or <<args>> of the scheduled call
  timeoutId,
  \* executor calls: requests[i] is the i-th call of executor.execute
  requests,
  \* the operation that ran last, followed by what it did, in order
  \* (callbacks invoked, controllers aborted, executor calls)
  calls,
  \* normalized value of the last setQuery call, <<>> before the first
  lastSetQuery,
  \* <<q>> when q is the query of the latest executor call and no reset()
  \* followed it, <<>> otherwise
  lastDispatched,
  \* the timers created by setTimeout in the timed model of debounce, in
  \* creation order: the arguments captured by the callback, the time since
  \* the timer was armed, and "armed", "cleared" or "fired"; the orchestrator
  \* models abstract the delay (timeoutId alone) and keep this empty
  timers,
  \* createAxiosExecutor's closure: the cancel function kept in cancelFn,
  \* Null or the number of the execute call whose source.cancel it is
  cancelFn,
  \* the execute calls made on the axios executor, in order: whether a
  \* signal was passed, whether it was aborted, how often the call's own
  \* source.cancel was invoked, and "in flight" or "settled"; the
  \* orchestrator models use an abstract executor and keep this empty
  axiosCalls

options == <<executor, minChars, trimInput, lowercaseInput, enableCancellation, inputProcessor>>
slots == <<onSearchStart, onSearchSuccess, onSearchError, onSearchCanceled>>
vars == <<executor, minChars, trimInput, lowercaseInput, enableCancellation, inputProcessor,
          currentQuery, previousQuery, searchResults, searchError, isLoading,
          currentAbortController,
          onSearchStart, onSearchSuccess, onSearchError, onSearchCanceled,
          timeoutId, requests, calls, lastSetQuery, lastDispatched, timers,
          cancelFn, axiosCalls>>
axiosExecutor == <<cancelFn, axiosCalls>>

\* ------------------------------------------------------ string utilities
IsSpace(c) == c = " "

RECURSIVE trimStart(_)
trimStart(s) ==
  IF s # <<>> /\ IsSpace(Head(s)) THEN trimStart(Tail(s)) ELSE s

RECURSIVE trimEnd(_)
trimEnd(s) ==
  IF s # <<>> /\ IsSpace(s[Len(s)]) THEN trimEnd(SubSeq(s, 1, Len(s) - 1)) ELSE s

trim(s) == trimEnd(trimStart(s))

LowerChar(c) == IF c = "A" THEN "a" ELSE c
UpperChar(c) == IF c = "a" THEN "A" ELSE c
toLowerCase(s) == [i \in DOMAIN s |-> LowerChar(s[i])]
toUpperCase(s) == [i \in DOMAIN s |-> UpperChar(s[i])]

\* the inputProcessor option: none, or one of these functions
\*   toUpperCase   value => value.toUpperCase()
\*   appendSuffix  value => value + '-processed'  (the suffix shortened to '-')
\*   appendSpace   value => value + ' '
Processors == {"none", "toUpperCase", "appendSuffix", "appendSpace"}

ApplyProcessor(p, s) ==
  CASE p = "toUpperCase" -> toUpperCase(s)
    [] p = "appendSuffix" -> Append(s, "-")
    [] p = "appendSpace" -> Append(s, " ")
    [] OTHER -> s

\* bug variant: inputProcessor runs on the raw value, before trim and lowercase
processInput_ProcessorFirst(value, doTrim, doLower, processor) ==
  LET v0 == IF processor # "none" THEN ApplyProcessor(processor, value) ELSE value
      v1 == IF doTrim THEN trim(v0) ELSE v0
  IN  IF doLower THEN toLowerCase(v1) ELSE v1

processInput(value, doTrim, doLower, processor) ==
  LET v1 == IF doTrim THEN trim(value) ELSE value
      v2 == IF doLower THEN toLowerCase(v1) ELSE v1
  IN  IF processor # "none" THEN ApplyProcessor(processor, v2) ELSE v2

\* bug variants of shouldPerformSearch: one gate dropped
shouldPerformSearch_NoMinChars(query, prevQuery, minC) == query # prevQuery
shouldPerformSearch_NoDuplicate(query, prevQuery, minC) == Len(query) >= minC

shouldPerformSearch(query, prevQuery, minC) ==
  IF Len(query) < minC THEN FALSE
  ELSE IF query = prevQuery THEN FALSE
  ELSE TRUE

\* a fresh controller is identified by the request it is created for
createAbortController(id) == IF AbortControllerDefined THEN id ELSE Null

\* ------------------------------------------------------------ call log
\* fn is the function that was called, for the invocation of a callback slot
Call(op, q, id) == [op |-> op, q |-> q, id |-> id, fn |-> Null]

\* bug variant: the callback given at construction is called, whatever the
\* slot holds now
Invoke_CapturedAtConstruction(slot, op, q, id) ==
  IF slot # Null THEN <<[Call(op, q, id) EXCEPT !.fn = 1]>> ELSE <<>>

\* bug variant: a registered callback is invoked twice
Invoke_Twice(slot, op, q, id) ==
  IF slot # Null
  THEN <<[Call(op, q, id) EXCEPT !.fn = slot],
         [Call(op, q, id) EXCEPT !.fn = slot]>>
  ELSE <<>>

Invoke(slot, op, q, id) ==
  IF slot # Null THEN <<[Call(op, q, id) EXCEPT !.fn = slot]>> ELSE <<>>

\* bug variant: previousQuery starts as undefined instead of ''
Construct_PreviousUndefined(mc, doTrim, doLower, cancellation, processor) ==
  /\ minChars = mc
  /\ trimInput = doTrim
  /\ lowercaseInput = doLower
  /\ enableCancellation = cancellation
  /\ inputProcessor = processor
  /\ currentQuery = <<>>
  /\ previousQuery = <<"undefined">>
  /\ searchResults = Null
  /\ searchError = Null
  /\ isLoading = FALSE
  /\ currentAbortController = Null
  /\ onSearchStart = 1
  /\ onSearchSuccess = 1
  /\ onSearchError = 1
  /\ onSearchCanceled = 1
  /\ timeoutId = <<>>
  /\ requests = <<>>
  /\ calls = <<>>
  /\ lastSetQuery = <<>>
  /\ lastDispatched = <<>>
  /\ timers = <<>>
  /\ cancelFn = Null
  /\ axiosCalls = <<>>

\* ---------------------------------------------------------------- Init
\* the state after createSearchOptimizer(executor, options)
Construct(mc, doTrim, doLower, cancellation, processor) ==
  /\ minChars = mc
  /\ trimInput = doTrim
  /\ lowercaseInput = doLower
  /\ enableCancellation = cancellation
  /\ inputProcessor = processor
  /\ currentQuery = <<>>
  /\ previousQuery = <<>>
  /\ searchResults = Null
  /\ searchError = Null
  /\ isLoading = FALSE
  /\ currentAbortController = Null
  /\ onSearchStart = 1
  /\ onSearchSuccess = 1
  /\ onSearchError = 1
  /\ onSearchCanceled = 1
  /\ timeoutId = <<>>
  /\ requests = <<>>
  /\ calls = <<>>
  /\ lastSetQuery = <<>>
  /\ lastDispatched = <<>>
  /\ timers = <<>>
  /\ cancelFn = Null
  /\ axiosCalls = <<>>

Init ==
  \E mc \in MinCharsValues, cancellation \in BOOLEAN :
    executor = "defined" /\ Construct(mc, TRUE, TRUE, cancellation, "none")

\* ------------------------------------------------- cancelCurrentRequest
\* the guard of cancelCurrentRequest
CancelApplies == enableCancellation /\ currentAbortController # Null

\* bug variant: the tracked controller is dropped without being aborted
AbortTracked_NoAbort(reqs) == reqs

\* requests after cancelCurrentRequest ran: the tracked controller is aborted
AbortTracked(reqs) ==
  IF CancelApplies
  THEN [reqs EXCEPT ![currentAbortController] =
          [@ EXCEPT !.aborted = TRUE]]
  ELSE reqs

\* bug variant: onSearchCanceled is invoked before the controller is aborted
CancelCalls_CallbackFirst(cq) ==
  IF CancelApplies
  THEN Invoke(onSearchCanceled, "onSearchCanceled", cq, currentAbortController)
       \o <<Call("abort", requests[currentAbortController].query, currentAbortController)>>
  ELSE <<>>

\* bug variant: the controller is aborted without notifying onSearchCanceled
CancelCalls_NoCallback(cq) ==
  IF CancelApplies
  THEN <<Call("abort", requests[currentAbortController].query, currentAbortController)>>
  ELSE <<>>

\* what cancelCurrentRequest does, in order, with live current query cq
CancelCalls(cq) ==
  IF CancelApplies
  THEN <<Call("abort", requests[currentAbortController].query, currentAbortController)>>
       \o Invoke(onSearchCanceled, "onSearchCanceled", cq, currentAbortController)
  ELSE <<>>

\* ------------------------------------------------------- executeSearch
\* the synchronous part of executeSearch(query), up to the await
Pending(reqs) == {i \in DOMAIN reqs : reqs[i].state = "pending"}

\* bug variant: the tracked request is cancelled before the gate is consulted
executeSearch_CancelBeforeGate(op, query) ==
  IF ~shouldPerformSearch(query, previousQuery, minChars)
  THEN /\ calls' = <<Call(op, query, Null)>> \o CancelCalls(currentQuery)
       /\ requests' = AbortTracked(requests)
       /\ currentAbortController' =
            IF CancelApplies THEN Null ELSE currentAbortController
       /\ UNCHANGED <<currentQuery, previousQuery, searchResults, searchError,
                      isLoading, lastDispatched>>
  ELSE LET id == Len(requests) + 1
           requestController ==
             IF enableCancellation THEN createAbortController(id)
             ELSE currentAbortController
       IN  /\ Len(requests) < MaxDispatch
           /\ isLoading' = TRUE
           /\ searchError' = Null
           /\ previousQuery' = query
           /\ currentAbortController' =
                IF enableCancellation THEN requestController
                ELSE currentAbortController
           /\ requests' = Append(AbortTracked(requests),
                                 [query |-> query,
                                  controller |-> requestController,
                                  aborted |-> FALSE,
                                  state |-> "pending"])
           /\ calls' = <<Call(op, query, Null)>>
                       \o Invoke(onSearchStart, "onSearchStart", query, id)
                       \o CancelCalls(currentQuery)
                       \o <<Call("execute", query, requestController)>>
           /\ lastDispatched' = <<query>>
           /\ UNCHANGED <<currentQuery, searchResults>>

\* the error thrown by the expression executor.execute(...) when executor
\* is undefined: an Error whose name is 'TypeError'
TypeErrorObject == 0 - 1

\* executeSearch(query) past the gate when executor is undefined: the call
\* expression throws inside the try block before anything is awaited, so
\* the catch and finally blocks run in the same step
executeSearch_Throws(op, query) ==
  LET id == Len(requests) + 1
      requestController ==
        IF enableCancellation THEN createAbortController(id)
        ELSE currentAbortController
      reported == query = currentQuery
  IN  /\ previousQuery' = query
      /\ isLoading' = ~reported
      /\ searchError' = IF reported THEN TypeErrorObject ELSE Null
      /\ currentAbortController' = Null
      /\ requests' = AbortTracked(requests)
      /\ calls' = <<Call(op, query, Null)>>
                  \o Invoke(onSearchStart, "onSearchStart", query, id)
                  \o CancelCalls(currentQuery)
                  \o <<Call("execute", query, requestController)>>
                  \o (IF reported
                      THEN Invoke(onSearchError, "onSearchError", query, id)
                      ELSE <<>>)
      /\ lastDispatched' = <<query>>
      /\ UNCHANGED <<currentQuery, searchResults>>

\* bug variant: a controller is created and tracked whatever enableCancellation
executeSearch_AlwaysTracks(op, query) ==
  IF ~shouldPerformSearch(query, previousQuery, minChars)
  THEN /\ calls' = <<Call(op, query, Null)>>
       /\ UNCHANGED <<currentQuery, previousQuery, searchResults, searchError,
                      isLoading, currentAbortController, requests, lastDispatched>>
  ELSE LET id == Len(requests) + 1
           requestController == createAbortController(id)
       IN  /\ Len(requests) < MaxDispatch
           /\ isLoading' = TRUE
           /\ searchError' = Null
           /\ previousQuery' = query
           /\ currentAbortController' = requestController
           /\ requests' = Append(AbortTracked(requests),
                                 [query |-> query,
                                  controller |-> requestController,
                                  aborted |-> FALSE,
                                  state |-> "pending"])
           /\ calls' = <<Call(op, query, Null)>>
                       \o Invoke(onSearchStart, "onSearchStart", query, id)
                       \o CancelCalls(currentQuery)
                       \o <<Call("execute", query, requestController)>>
           /\ lastDispatched' = <<query>>
           /\ UNCHANGED <<currentQuery, searchResults>>

executeSearch(op, query) ==
  IF ~shouldPerformSearch(query, previousQuery, minChars)
  THEN /\ calls' = <<Call(op, query, Null)>>
       /\ UNCHANGED <<currentQuery, previousQuery, searchResults, searchError,
                      isLoading, currentAbortController, requests, lastDispatched>>
  ELSE IF executor = "undefined" THEN executeSearch_Throws(op, query)
  ELSE LET id == Len(requests) + 1
           requestController ==
             IF enableCancellation THEN createAbortController(id)
             ELSE currentAbortController
       IN  /\ Len(requests) < MaxDispatch
           /\ isLoading' = TRUE
           /\ searchError' = Null
           /\ previousQuery' = query
           /\ currentAbortController' =
                IF enableCancellation THEN requestController
                ELSE currentAbortController
           /\ requests' = Append(AbortTracked(requests),
                                 [query |-> query,
                                  controller |-> requestController,
                                  aborted |-> FALSE,
                                  state |-> "pending"])
           /\ calls' = <<Call(op, query, Null)>>
                       \o Invoke(onSearchStart, "onSearchStart", query, id)
                       \o CancelCalls(currentQuery)
                       \o <<Call("execute", query, requestController)>>
           /\ lastDispatched' = <<query>>
           /\ UNCHANGED <<currentQuery, searchResults>>

\* --------------------------------------------------------- operations
\* bug variant: setQuery also advances previousQuery
setQuery_AdvancesPrevious(value) ==
  LET processedValue == processInput(value, trimInput, lowercaseInput, inputProcessor)
  IN  /\ currentQuery' = processedValue
      /\ previousQuery' = processedValue
      /\ lastSetQuery' = processedValue
      /\ IF Len(processedValue) < minChars
         THEN /\ IF enableCancellation
                 THEN /\ requests' = AbortTracked(requests)
                      /\ calls' = <<Call("setQuery", processedValue, Null)>>
                                  \o CancelCalls(processedValue)
                      /\ currentAbortController' = Null
                 ELSE /\ calls' = <<Call("setQuery", processedValue, Null)>>
                      /\ UNCHANGED <<requests, currentAbortController>>
              /\ UNCHANGED timeoutId
         ELSE /\ timeoutId' = <<processedValue>>
              /\ calls' = <<Call("setQuery", processedValue, Null)>>
              /\ UNCHANGED <<requests, currentAbortController>>
      /\ UNCHANGED <<options, timers, axiosExecutor, slots, searchResults, searchError,
                     isLoading, lastDispatched>>

setQuery(value) ==
  LET processedValue == processInput(value, trimInput, lowercaseInput, inputProcessor)
  IN  /\ currentQuery' = processedValue
      /\ lastSetQuery' = processedValue
      /\ IF Len(processedValue) < minChars
         THEN /\ IF enableCancellation
                 THEN /\ requests' = AbortTracked(requests)
                      /\ calls' = <<Call("setQuery", processedValue, Null)>>
                                  \o CancelCalls(processedValue)
                      /\ currentAbortController' = Null
                 ELSE /\ calls' = <<Call("setQuery", processedValue, Null)>>
                      /\ UNCHANGED <<requests, currentAbortController>>
              /\ UNCHANGED timeoutId
         ELSE /\ timeoutId' = <<processedValue>>
              /\ calls' = <<Call("setQuery", processedValue, Null)>>
              /\ UNCHANGED <<requests, currentAbortController>>
      /\ UNCHANGED <<options, timers, axiosExecutor, slots, previousQuery, searchResults, searchError,
                     isLoading, lastDispatched>>

\* the debounce timer fires: timeoutId = null; func.apply(context, args)
TimerFire ==
  /\ timeoutId # <<>>
  /\ timeoutId' = <<>>
  /\ executeSearch("timer", timeoutId[1])
  /\ UNCHANGED <<options, timers, axiosExecutor, slots, lastSetQuery>>

\* bug variant: search() goes through the debounce like setQuery
search_ViaDebounce ==
  /\ timeoutId' = <<currentQuery>>
  /\ calls' = <<Call("search", currentQuery, Null)>>
  /\ UNCHANGED <<options, timers, axiosExecutor, slots, currentQuery, previousQuery, searchResults,
                 searchError, isLoading, currentAbortController, requests,
                 lastSetQuery, lastDispatched>>

search ==
  /\ executeSearch("search", currentQuery)
  /\ UNCHANGED <<options, timers, axiosExecutor, slots, timeoutId, lastSetQuery>>

\* bug variant: cancel() leaves the aborted controller tracked
cancel_KeepsHandle ==
  /\ requests' = AbortTracked(requests)
  /\ calls' = <<Call("cancel", currentQuery, Null)>> \o CancelCalls(currentQuery)
  /\ currentAbortController' = currentAbortController
  /\ UNCHANGED <<options, timers, axiosExecutor, slots, currentQuery, previousQuery, searchResults,
                 searchError, isLoading, timeoutId, lastSetQuery, lastDispatched>>

cancel ==
  /\ requests' = AbortTracked(requests)
  /\ calls' = <<Call("cancel", currentQuery, Null)>> \o CancelCalls(currentQuery)
  /\ currentAbortController' = IF CancelApplies THEN Null ELSE currentAbortController
  /\ UNCHANGED <<options, timers, axiosExecutor, slots, currentQuery, previousQuery, searchResults,
                 searchError, isLoading, timeoutId, lastSetQuery, lastDispatched>>

\* bug variant: reset() leaves the loading flag as it is
reset_KeepsLoading ==
  /\ requests' = AbortTracked(requests)
  /\ calls' = <<Call("reset", <<>>, Null)>> \o CancelCalls(currentQuery)
  /\ currentAbortController' = Null
  /\ currentQuery' = <<>>
  /\ previousQuery' = <<>>
  /\ searchResults' = Null
  /\ searchError' = Null
  /\ lastDispatched' = <<>>
  /\ UNCHANGED <<options, timers, axiosExecutor, slots, isLoading, timeoutId, lastSetQuery>>

\* bug variant: reset() also clears the four callback slots
reset_ClearsCallbacks ==
  /\ requests' = AbortTracked(requests)
  /\ calls' = <<Call("reset", <<>>, Null)>> \o CancelCalls(currentQuery)
  /\ currentAbortController' = Null
  /\ currentQuery' = <<>>
  /\ previousQuery' = <<>>
  /\ searchResults' = Null
  /\ searchError' = Null
  /\ isLoading' = FALSE
  /\ lastDispatched' = <<>>
  /\ onSearchStart' = Null
  /\ onSearchSuccess' = Null
  /\ onSearchError' = Null
  /\ onSearchCanceled' = Null
  /\ UNCHANGED <<options, timers, axiosExecutor, timeoutId, lastSetQuery>>

reset ==
  /\ requests' = AbortTracked(requests)
  /\ calls' = <<Call("reset", <<>>, Null)>> \o CancelCalls(currentQuery)
  /\ currentAbortController' = Null
  /\ currentQuery' = <<>>
  /\ previousQuery' = <<>>
  /\ searchResults' = Null
  /\ searchError' = Null
  /\ isLoading' = FALSE
  /\ lastDispatched' = <<>>
  /\ UNCHANGED <<options, timers, axiosExecutor, slots, timeoutId, lastSetQuery>>

\* ------------------------------------------------- callback accessors
\* the functions a callback slot can hold: the one given at construction (1)
\* and a replacement (2)
Callbacks == {1, 2}

setOnSearchStart(callback) ==
  /\ onSearchStart' = callback
  /\ calls' = <<Call("set onSearchStart", <<>>, Null)>>
  /\ UNCHANGED <<options, timers, axiosExecutor, onSearchSuccess, onSearchError, onSearchCanceled,
                 currentQuery, previousQuery, searchResults, searchError,
                 isLoading, currentAbortController, timeoutId, requests,
                 lastSetQuery, lastDispatched>>

setOnSearchSuccess(callback) ==
  /\ onSearchSuccess' = callback
  /\ calls' = <<Call("set onSearchSuccess", <<>>, Null)>>
  /\ UNCHANGED <<options, timers, axiosExecutor, onSearchStart, onSearchError, onSearchCanceled,
                 currentQuery, previousQuery, searchResults, searchError,
                 isLoading, currentAbortController, timeoutId, requests,
                 lastSetQuery, lastDispatched>>

setOnSearchError(callback) ==
  /\ onSearchError' = callback
  /\ calls' = <<Call("set onSearchError", <<>>, Null)>>
  /\ UNCHANGED <<options, timers, axiosExecutor, onSearchStart, onSearchSuccess, onSearchCanceled,
                 currentQuery, previousQuery, searchResults, searchError,
                 isLoading, currentAbortController, timeoutId, requests,
                 lastSetQuery, lastDispatched>>

setOnSearchCanceled(callback) ==
  /\ onSearchCanceled' = callback
  /\ calls' = <<Call("set onSearchCanceled", <<>>, Null)>>
  /\ UNCHANGED <<options, timers, axiosExecutor, onSearchStart, onSearchSuccess, onSearchError,
                 currentQuery, previousQuery, searchResults, searchError,
                 isLoading, currentAbortController, timeoutId, requests,
                 lastSetQuery, lastDispatched>>

\* --------------------------------------------- executor settles a request
\* payload and error objects are identified by the request they belong to
Payload(id) == id
ErrorObject(id) == id

\* bug variant: the aborted flag of the request's controller is not consulted
SuccessAccepted_NoAbortCheck(r) == r.query = currentQuery

\* the condition under which a resolved request is published
SuccessAccepted(r) ==
  (r.controller = Null \/ ~r.aborted) /\ r.query = currentQuery

\* bug variant: the test of the error's name is inverted
ErrorAccepted_NameInverted(r, e) ==
  e = "AbortError" /\ r.query = currentQuery

\* the condition under which a rejected request is reported
ErrorAccepted(r, e) ==
  e = "Error" /\ r.query = currentQuery

\* bug variant: the finally block clears the tracked controller unconditionally
Finally_AlwaysClears(r) == Null

\* the finally block: the tracked controller after request r settled
Finally(r) ==
  IF currentAbortController = r.controller THEN Null ELSE currentAbortController

\* bug variant: an error the catch block does not report is thrown again
Completion_Rethrows(r, e) ==
  IF e = "resolve" THEN "resolved"
  ELSE IF ErrorAccepted(r, e) THEN "resolved"
  ELSE "rejected"

\* the promise executeSearch returned (the one search() hands out) once the
\* executor call settled with outcome e: the try block ran to its end, or
\* the catch block reported the error or ignored it; nothing is thrown again
Completion(r, e) ==
  IF e = "resolve" THEN "resolved"
  ELSE IF ErrorAccepted(r, e) THEN "resolved"
  ELSE "resolved"

\* the record kept of a settled request: whether its controller was aborted
\* and how the promise of its executeSearch call completed
Settled(r, e) ==
  [query |-> <<>>, controller |-> r.controller, aborted |-> r.aborted,
   state |-> "settled", completion |-> Completion(r, e)]

Resolve(id) ==
  LET r == requests[id] IN
  /\ r.state = "pending"
  /\ IF SuccessAccepted(r)
     THEN /\ searchResults' = Payload(id)
          /\ isLoading' = FALSE
          /\ calls' = <<Call("resolve", r.query, id)>>
                      \o Invoke(onSearchSuccess, "onSearchSuccess", r.query, id)
          /\ requests' = [requests EXCEPT ![id] = Settled(r, "resolve")]
     ELSE /\ calls' = <<Call("resolve", r.query, id)>>
          /\ requests' = [requests EXCEPT ![id] = Settled(r, "resolve")]
          /\ UNCHANGED <<searchResults, isLoading>>
  /\ currentAbortController' = Finally(r)
  /\ UNCHANGED <<options, timers, axiosExecutor, slots, currentQuery, previousQuery, searchError,
                 timeoutId, lastSetQuery, lastDispatched>>

\* bug variant: a reported failure forgets the query, so that it can be
\* dispatched again
Reject_AllowsRetry(id, e) ==
  LET r == requests[id] IN
  /\ r.state = "pending"
  /\ IF ErrorAccepted(r, e)
     THEN /\ searchError' = ErrorObject(id)
          /\ isLoading' = FALSE
          /\ previousQuery' = <<>>
          /\ calls' = <<Call("reject", r.query, id)>>
                      \o Invoke(onSearchError, "onSearchError", r.query, id)
          /\ requests' = [requests EXCEPT ![id] = Settled(r, e)]
     ELSE /\ calls' = <<Call("reject", r.query, id)>>
          /\ requests' = [requests EXCEPT ![id] = Settled(r, e)]
          /\ UNCHANGED <<searchError, isLoading, previousQuery>>
  /\ currentAbortController' = Finally(r)
  /\ UNCHANGED <<options, timers, axiosExecutor, slots, currentQuery, searchResults,
                 timeoutId, lastSetQuery, lastDispatched>>

Reject(id, e) ==
  LET r == requests[id] IN
  /\ r.state = "pending"
  /\ IF ErrorAccepted(r, e)
     THEN /\ searchError' = ErrorObject(id)
          /\ isLoading' = FALSE
          /\ calls' = <<Call("reject", r.query, id)>>
                      \o Invoke(onSearchError, "onSearchError", r.query, id)
          /\ requests' = [requests EXCEPT ![id] = Settled(r, e)]
     ELSE /\ calls' = <<Call("reject", r.query, id)>>
          /\ requests' = [requests EXCEPT ![id] = Settled(r, e)]
          /\ UNCHANGED <<searchError, isLoading>>
  /\ currentAbortController' = Finally(r)
  /\ UNCHANGED <<options, timers, axiosExecutor, slots, currentQuery, previousQuery, searchResults,
                 timeoutId, lastSetQuery, lastDispatched>>

\* ------------------------------------------- React adapter (the hook)
\* useSearchOptimizer registers a handler in each callback slot; every
\* handler calls setLoading, with this value
HookHandlers ==
  {"onSearchStart", "onSearchSuccess", "onSearchError", "onSearchCanceled"}
setLoading(handler) == handler = "onSearchStart"

\* the hook's loading state as the handlers run by the last step left it
\* (meaningful when the step ran a handler)
HookHandlersRun == {k \in DOMAIN calls : calls[k].op \in HookHandlers}
HookLoading ==
  LET last == CHOOSE k \in HookHandlersRun : \A j \in HookHandlersRun : j <= k
  IN  setLoading(calls[last].op)

\* setQuery uses its argument only through processInput, so one raw input
\* stands for all the raw inputs with the same processed value
ProcessedInputs ==
  {processInput(v, trimInput, lowercaseInput, inputProcessor) : v \in RawInputs}
Representative(p) ==
  CHOOSE v \in RawInputs : processInput(v, trimInput, lowercaseInput, inputProcessor) = p

SetQueryStep == \E p \in ProcessedInputs : setQuery(Representative(p))
ResolveStep == \E id \in DOMAIN requests : Resolve(id)
RejectStep == \E id \in DOMAIN requests, e \in Outcomes \ {"resolve"} : Reject(id, e)

Next ==
  \/ SetQueryStep
  \/ TimerFire
  \/ search
  \/ cancel
  \/ reset
  \/ ResolveStep
  \/ RejectStep

Spec == Init /\ [][Next]_vars

\* createSearchOptimizer(executor, { minChars: 0 })
InitMinZero ==
  \E cancellation \in BOOLEAN :
    executor = "defined" /\ Construct(0, TRUE, TRUE, cancellation, "none")

SpecMinZero == InitMinZero /\ [][Next]_vars

\* typing only: setQuery calls, the debounce timer and an executor that
\* resolves its calls; cancel(), reset() and search() are never called
NextTyping ==
  \/ SetQueryStep
  \/ TimerFire
  \/ ResolveStep

SpecTyping == Init /\ [][NextTyping]_vars

\* createSearchOptimizer(undefined, options): the executor is not inspected
\* at construction, and without one no request is ever outstanding
InitNoExecutor ==
  \E mc \in MinCharsValues, cancellation \in BOOLEAN :
    executor = "undefined" /\ Construct(mc, TRUE, TRUE, cancellation, "none")

NextNoExecutor ==
  \/ SetQueryStep
  \/ TimerFire
  \/ search
  \/ cancel
  \/ reset

SpecNoExecutor == InitNoExecutor /\ [][NextNoExecutor]_vars

\* ------------------------------------------ debounce(func, delay), timed
\* the debounced function on its own, with a clock: timers[i] is the i-th
\* timer created by setTimeout; timeoutId is null or the latest timer
orchestrator ==
  <<currentQuery, previousQuery, searchResults, searchError, isLoading,
    currentAbortController, requests, lastSetQuery, lastDispatched>>
DebounceArgs == {<<"a">>, <<"a", "a">>}

\* clearTimeout(timeoutId): the tracked timer, the latest one, never fires
clearTimeout(ts) == [ts EXCEPT ![Len(ts)] = [@ EXCEPT !.state = "cleared"]]

\* setTimeout(callback, delay) with a callback that captured args
setTimeout(ts, args) ==
  Append(ts, [args |-> args, age |-> 0, state |-> "armed"])

\* bug variant: the pending timer is not cleared by a new call
debounced_NoClear(args) ==
  /\ Len(timers) < MaxCalls
  /\ timers' = setTimeout(timers, args)
  /\ timeoutId' = <<args>>
  /\ calls' = <<Call("debounced", args, Null)>>
  /\ UNCHANGED <<options, slots, orchestrator, axiosExecutor>>

\* a call of the function debounce returned
debounced(args) ==
  /\ Len(timers) < MaxCalls
  /\ timers' = setTimeout(IF timeoutId # <<>> THEN clearTimeout(timers)
                          ELSE timers,
                          args)
  /\ timeoutId' = <<args>>
  /\ calls' = <<Call("debounced", args, Null)>>
  /\ UNCHANGED <<options, slots, orchestrator, axiosExecutor>>

\* the timers whose callback has yet to run
Armed == {i \in DOMAIN timers : timers[i].state = "armed"}

\* the clock advances by one tick; a timer is due once delay has elapsed
\* and its callback runs at most MaxLateness ticks after that
Tick ==
  /\ Armed # {}
  /\ \A i \in Armed : timers[i].age < DebounceDelay + MaxLateness
  /\ timers' = [i \in DOMAIN timers |->
                 IF i \in Armed THEN [timers[i] EXCEPT !.age = @ + 1]
                 ELSE timers[i]]
  /\ calls' = <<Call("tick", <<>>, Null)>>
  /\ UNCHANGED <<options, slots, orchestrator, axiosExecutor, timeoutId>>

\* the callback of timer i runs: timeoutId = null; func.apply(context, args)
TimeoutCallback(i) ==
  /\ timers[i].state = "armed"
  /\ timers[i].age >= DebounceDelay
  /\ timers' = [timers EXCEPT ![i] = [@ EXCEPT !.state = "fired"]]
  /\ timeoutId' = <<>>
  /\ calls' = <<Call("timer", timers[i].args, i),
                Call("func", timers[i].args, i)>>
  /\ UNCHANGED <<options, slots, orchestrator, axiosExecutor>>

InitDebounce ==
  executor = "defined" /\ Construct(1, TRUE, TRUE, TRUE, "none")

DebouncedStep == \E args \in DebounceArgs : debounced(args)
TimeoutCallbackStep == \E i \in DOMAIN timers : TimeoutCallback(i)
NextDebounce ==
  \/ DebouncedStep
  \/ Tick
  \/ TimeoutCallbackStep

SpecDebounce == InitDebounce /\ [][NextDebounce]_vars

\* -------------------------------------------- createAxiosExecutor(options)
\* the executor on its own, called directly; axios.CancelToken is provided
\* the abort listener registered by call i: `if (cancelFn) cancelFn(...)`
\* invokes the cancel function the closure holds when the signal is aborted
AbortListener(i) == cancelFn

\* execute(query, signal): the listener is registered when a signal is
\* passed, a CancelToken source is made for this call, its cancel function
\* is stored in cancelFn, and axios.get is awaited
axiosExecute(hasSignal) ==
  /\ Len(axiosCalls) < MaxAxiosCalls
  /\ axiosCalls' = Append(axiosCalls,
                          [signal |-> hasSignal, aborted |-> FALSE,
                           canceled |-> 0, state |-> "in flight"])
  /\ cancelFn' = Len(axiosCalls) + 1
  /\ calls' = <<Call("axios execute", <<>>, Len(axiosCalls) + 1)>>
  /\ UNCHANGED <<options, slots, orchestrator, timeoutId, timers>>

\* the signal passed to call i is aborted: its listener runs
abortSignal(i) ==
  /\ axiosCalls[i].signal /\ ~axiosCalls[i].aborted
  /\ LET target == AbortListener(i)
         marked == [axiosCalls EXCEPT ![i] = [@ EXCEPT !.aborted = TRUE]]
     IN  /\ axiosCalls' =
              IF target = Null THEN marked
              ELSE [marked EXCEPT ![target] =
                      [@ EXCEPT !.canceled = @ + 1]]
         /\ calls' =
              <<Call("signal abort", <<>>, i)>>
              \o (IF target = Null THEN <<>>
                  ELSE <<Call("Request was canceled", <<>>, target)>>)
  /\ UNCHANGED <<options, slots, orchestrator, timeoutId, timers, cancelFn>>

\* axios.get of call i settles (response, failure or cancellation); the
\* closure's cancelFn is left as it is
axiosSettle(i) ==
  /\ axiosCalls[i].state = "in flight"
  /\ axiosCalls' = [axiosCalls EXCEPT ![i] = [@ EXCEPT !.state = "settled"]]
  /\ calls' = <<Call("axios settle", <<>>, i)>>
  /\ UNCHANGED <<options, slots, orchestrator, timeoutId, timers, cancelFn>>

InitAxios ==
  executor = "defined" /\ Construct(1, TRUE, TRUE, TRUE, "none")

AxiosExecuteStep == \E hasSignal \in BOOLEAN : axiosExecute(hasSignal)
AbortSignalStep == \E i \in DOMAIN axiosCalls : abortSignal(i)
AxiosSettleStep == \E i \in DOMAIN axiosCalls : axiosSettle(i)
NextAxios ==
  \/ AxiosExecuteStep
  \/ AbortSignalStep
  \/ AxiosSettleStep

SpecAxios == InitAxios /\ [][NextAxios]_vars

\* every combination of the three normalisation options; the caller types
\* raw values until the executor has been invoked once
InitNormalize ==
  \E doTrim \in BOOLEAN, doLower \in BOOLEAN, processor \in Processors :
    executor = "defined" /\ Construct(1, doTrim, doLower, TRUE, processor)

SetQueryRawStep == \E v \in RawInputs : requests = <<>> /\ setQuery(v)

NextNormalize ==
  \/ SetQueryRawStep
  \/ TimerFire
  \/ ResolveStep

SpecNormalize == InitNormalize /\ [][NextNormalize]_vars

\* default options; the caller types one of a few values and replaces
\* callbacks while a request is outstanding or a debounce timer is pending
InitCallbacks ==
  executor = "defined" /\ Construct(1, TRUE, TRUE, TRUE, "none")

CallbackInputs == {<<>>, <<"A">>, <<"A", "A">>}
SetQueryCallbacksStep == \E v \in CallbackInputs : setQuery(v)

InFlightOrDebouncing == Pending(requests) # {} \/ timeoutId # <<>>

SetOnSearchStartStep ==
  \E callback \in Callbacks : InFlightOrDebouncing /\ setOnSearchStart(callback)
SetOnSearchSuccessStep ==
  \E callback \in Callbacks : InFlightOrDebouncing /\ setOnSearchSuccess(callback)
SetOnSearchErrorStep ==
  \E callback \in Callbacks : InFlightOrDebouncing /\ setOnSearchError(callback)
SetOnSearchCanceledStep ==
  \E callback \in Callbacks : InFlightOrDebouncing /\ setOnSearchCanceled(callback)

NextCallbacks ==
  \/ SetQueryCallbacksStep
  \/ TimerFire
  \/ search
  \/ cancel
  \/ reset
  \/ ResolveStep
  \/ RejectStep
  \/ SetOnSearchStartStep
  \/ SetOnSearchSuccessStep
  \/ SetOnSearchErrorStep
  \/ SetOnSearchCanceledStep

SpecCallbacks == InitCallbacks /\ [][NextCallbacks]_vars

TypeOK ==
  /\ \A i \in DOMAIN currentQuery : currentQuery[i] \in Chars
  /\ isLoading \in BOOLEAN
  /\ currentAbortController \in 0..MaxDispatch
  /\ Len(requests) <= MaxDispatch

\* ------------------------------------------------------------- claims
LastOp == IF calls = <<>> THEN "none" ELSE calls[1].op
LastId == calls[1].id
Ops(name) == {k \in DOMAIN calls : calls[k].op = name}
\* the request settled by the last step had been superseded by a later dispatch
SupersededSettled == LastOp \in {"resolve", "reject"} /\ LastId < Len(requests)

\* C1: with cancellation enabled, a request that resolves after a later
\* dispatch has started (in particular one of a different query) is never
\* written to results and never passed to onSearchSuccess; a request that
\* resolves while current (handle not signalled, its query still the current
\* query) is written to results and passed to onSearchSuccess exactly once.
C1_StaleNeverPublished ==
  (enableCancellation /\ LastOp = "resolve") =>
    /\ LastId < Len(requests)
       => /\ Ops("onSearchSuccess") = {}
          /\ searchResults # Payload(LastId)
    /\ (~requests[LastId].aborted /\ calls[1].q = currentQuery)
       => /\ searchResults = Payload(LastId)
          /\ ~isLoading
          /\ Cardinality(Ops("onSearchSuccess")) = 1
          /\ \A k \in Ops("onSearchSuccess") : calls[k].id = LastId

\* request 1 resolved after request 2 (a different query, still outstanding)
\* had started and after the user had typed request 1's query again
C1_Witness ==
  /\ enableCancellation
  /\ LastOp = "resolve" /\ LastId = 1
  /\ Len(requests) = 2
  /\ requests[2].state = "pending"
  /\ requests[2].query # calls[1].q
  /\ currentQuery = calls[1].q

\* C2: the completion of a superseded request (a later dispatch has
\* started) never changes results or error and never invokes
\* onSearchSuccess or onSearchError, with or without cancellation.
C2_SupersededNeverPublishes ==
  SupersededSettled =>
    /\ Ops("onSearchSuccess") = {} /\ Ops("onSearchError") = {}
    /\ searchResults # Payload(LastId)
    /\ searchError # ErrorObject(LastId)

\* C3: when the debounce timer fires and the executor is invoked, the query
\* is the normalized value of the last setQuery call.
C3_OnlyLastValueDispatched ==
  LastOp = "timer" => \A k \in Ops("execute") : calls[k].q = lastSetQuery

\* C4: the executor and onSearchStart are never invoked for a query shorter
\* than minChars.
C4_MinCharsGate ==
  /\ \A i \in Pending(requests) : Len(requests[i].query) >= minChars
  /\ \A k \in Ops("execute") \cup Ops("onSearchStart") : Len(calls[k].q) >= minChars

\* search() was called while the current query is too short (and differs
\* from previousQuery): nothing was invoked
C4_Witness ==
  /\ calls = <<Call("search", currentQuery, Null)>>
  /\ Len(currentQuery) < minChars
  /\ currentQuery # previousQuery

\* a step that invokes the executor does so with a query that differs from
\* previousQuery and from the query of the executor call before it, unless a
\* reset() came in between
C5_NeverPreviousQuery ==
  Len(requests') > Len(requests) =>
    LET query == requests'[Len(requests')].query
    IN  query # previousQuery /\ lastDispatched # <<query>>

\* C5: the executor is never invoked with a query equal to previousQuery,
\* so two executor invocations for the same query are separated by a
\* dispatch of a different query or by a reset().
C5_NoDuplicateDispatch == [][C5_NeverPreviousQuery]_vars

\* a dispatch attempt for a long-enough query was suppressed as a duplicate
\* of the query dispatched last
C5_Witness ==
  /\ LastOp \in {"timer", "search"}
  /\ Len(calls) = 1
  /\ Len(calls[1].q) >= minChars
  /\ lastDispatched = <<calls[1].q>>

\* C6: every abort of an outstanding request is followed by exactly one
\* onSearchCanceled invocation whose argument is the query of the request
\* being abandoned.
C6_CanceledWithAbandonedQuery ==
  /\ \A k \in Ops("abort") :
       /\ k < Len(calls)
       /\ calls[k + 1].op = "onSearchCanceled"
       /\ calls[k + 1].q = calls[k].q
       /\ calls[k + 1].id = calls[k].id
  /\ Cardinality(Ops("onSearchCanceled")) = Cardinality(Ops("abort"))

\* C7: after cancel() found an outstanding request, loading is false, the
\* request's handle is signalled and no handle is tracked.
C7_CancelClearsLoading ==
  (LastOp = "cancel" /\ Ops("abort") # {}) =>
    /\ ~isLoading
    /\ currentAbortController = Null
    /\ \A k \in Ops("abort") : requests[calls[k].id].aborted

\* C8: (cancellation enabled) loading is true iff the tracked handle belongs
\* to a dispatched request that has not settled.
C8_LoadingIffTracked ==
  enableCancellation =>
    (isLoading <=> /\ currentAbortController # Null
                   /\ requests[currentAbortController].state = "pending")

\* C9: once no dispatch is outstanding and no debounce timer is armed,
\* loading is false.
C9_QuiescentNotLoading ==
  (timeoutId = <<>> /\ Pending(requests) = {}) => ~isLoading

\* C10: with cancellation enabled, a request that is neither settled nor
\* signalled is the one whose handle is tracked (so there is at most one),
\* and a dispatch signals the previously tracked handle before it invokes
\* the executor.
C10_SingleLiveRequest ==
  enableCancellation =>
    /\ \A i \in Pending(requests) : ~requests[i].aborted => currentAbortController = i
    /\ \A k \in Ops("execute") :
         /\ \A j \in Ops("abort") : j < k
         /\ \A i \in Pending(requests) : i # calls[k].id => requests[i].aborted

\* a dispatch has just superseded a request that is still outstanding
C10_Witness ==
  /\ enableCancellation
  /\ Ops("execute") # {}
  /\ \E j \in Ops("abort") : requests[calls[j].id].state = "pending"
  /\ currentAbortController = Len(requests)

\* the executor rejects request id with a plain Error while the request is
\* current (handle not signalled, its query still the current query)
C11_CurrentRejects(id) ==
  /\ requests[id].state = "pending"
  /\ ~requests[id].aborted
  /\ requests[id].query = currentQuery
  /\ Reject(id, "Error")

C11_Reported(id) ==
  /\ searchError' = ErrorObject(id)
  /\ ~isLoading'
  /\ searchResults' = searchResults
  /\ Cardinality({k \in DOMAIN calls' : calls'[k].op = "onSearchError"}) = 1
  /\ \A k \in DOMAIN calls' :
       calls'[k].op = "onSearchError"
         => calls'[k].id = id /\ calls'[k].q = requests[id].query

C13_SuccessClearsError ==
  (LastOp = "resolve" /\ Ops("onSearchSuccess") # {} /\ searchResults = Payload(LastId))
    => searchError = Null

\* the public state is that of a freshly constructed orchestrator
C14_FreshState ==
  /\ currentQuery = <<>>
  /\ searchResults = Null
  /\ searchError = Null
  /\ ~isLoading

\* C14 (as amended): right after reset(), query is '', results is null,
\* error is null and loading is false, and no handle is tracked; with
\* cancellation enabled every outstanding request has its handle signalled.
C14_ResetRestoresFresh ==
  LastOp = "reset" =>
    /\ C14_FreshState
    /\ currentAbortController = Null
    /\ enableCancellation => \A i \in Pending(requests) : requests[i].aborted

\* C14 (as stated): right after reset() the public state is fresh and every
\* outstanding request is cancelled, whatever the options.
C14_ResetCancelsOutstanding ==
  LastOp = "reset" =>
    /\ C14_FreshState
    /\ \A i \in Pending(requests) : requests[i].aborted

\* reset() has just cancelled the outstanding second request
C14_Witness ==
  /\ LastOp = "reset"
  /\ Ops("abort") # {}
  /\ Len(requests) = 2
  /\ requests[2].state = "pending" /\ requests[2].aborted

\* search() with a current query that passes the gate invokes the executor
\* with it during the call and leaves the debounce timer alone
C15_SearchDispatches ==
  (search /\ shouldPerformSearch(currentQuery, previousQuery, minChars)) =>
    /\ Len(requests') = Len(requests) + 1
    /\ requests'[Len(requests')].query = currentQuery
    /\ Cardinality({k \in DOMAIN calls' : calls'[k].op = "execute"}) = 1
    /\ \A k \in DOMAIN calls' : calls'[k].op = "execute" => calls'[k].q = currentQuery
    /\ timeoutId' = timeoutId

\* a timer pending for the value dispatched last (no reset() since) fires
\* without invoking the executor
C15_TimerSuppressed ==
  (TimerFire /\ timeoutId = lastDispatched) =>
    /\ requests' = requests
    /\ \A k \in DOMAIN calls' : calls'[k].op # "execute"

\* C15: search() bypasses the debounce: when the current query passes the
\* gate the executor is invoked with it during the search() call, and a
\* debounce timer still pending for that value then fires without a second
\* executor invocation.
C15_SearchBypassesDebounce ==
  [][C15_SearchDispatches /\ C15_TimerSuppressed]_vars

\* search() has just dispatched the current query while the debounce timer
\* armed for the same value is still pending
C15_Witness ==
  /\ LastOp = "search"
  /\ Ops("execute") # {}
  /\ timeoutId = <<currentQuery>>

\* a dispatch attempt (timer or search()) whose query fails the gate
C16_GatedAttempt ==
  \/ TimerFire /\ ~shouldPerformSearch(timeoutId[1], previousQuery, minChars)
  \/ search /\ ~shouldPerformSearch(currentQuery, previousQuery, minChars)

\* C16: a gated-out dispatch attempt leaves query, previousQuery, results,
\* error, loading, the tracked handle and the requests unchanged, and
\* invokes neither the executor nor a callback.
C16_GatedChangesNothing ==
  [][C16_GatedAttempt =>
       /\ UNCHANGED <<currentQuery, previousQuery, searchResults, searchError,
                      isLoading, currentAbortController, requests>>
       /\ Len(calls') = 1]_vars

\* a dispatch attempt was gated out while a request is outstanding
C16_Witness ==
  /\ LastOp \in {"timer", "search"}
  /\ Len(calls) = 1
  /\ isLoading
  /\ currentAbortController # Null
  /\ requests[currentAbortController].state = "pending"

\* the operation a step performs is the first entry of the log it leaves
C17_StepOp == calls'[1].op

\* a setQuery step stores the normalized value of its argument (the value it
\* logs and records as lastSetQuery), armed timer or not
C17_QueryFollowsInput ==
  C17_StepOp = "setQuery" =>
    /\ currentQuery' = calls'[1].q
    /\ currentQuery' = lastSetQuery'
    /\ timeoutId' \in {timeoutId, <<currentQuery'>>}

C17_PreviousQueryFrame ==
  /\ previousQuery' # previousQuery =>
       \/ /\ C17_StepOp \in {"timer", "search"}
          /\ Len(requests') = Len(requests) + 1
          /\ previousQuery' = requests'[Len(requests')].query
       \/ C17_StepOp = "reset" /\ previousQuery' = <<>>
  /\ Len(requests') > Len(requests) =>
       previousQuery' = requests'[Len(requests')].query
  /\ C17_StepOp \in {"setQuery", "cancel", "resolve", "reject"} =>
       previousQuery' = previousQuery

\* C17: after setQuery(v), query is the normalized value of v whether or
\* not a dispatch follows; previousQuery changes only when a dispatch starts
\* (to the dispatched query) or on reset() (to ''), never on setQuery,
\* cancel() or a completion.
C17_QueryAndPreviousQuery ==
  [][C17_QueryFollowsInput /\ C17_PreviousQueryFrame]_vars

\* setQuery stored a too-short value, for which no dispatch is scheduled,
\* while previousQuery still holds an earlier dispatched query
C17_Witness ==
  /\ LastOp = "setQuery"
  /\ Len(currentQuery) < minChars
  /\ timeoutId = <<>>
  /\ previousQuery # <<>>
  /\ previousQuery # currentQuery

\* no executor call was made since construction or the last reset()
C20_FreshOrReset == lastDispatched = <<>>

\* the debounce timer armed by setQuery('') fires
C20_EmptyTimerFires == timeoutId = << <<>> >> /\ TimerFire

\* C20: with minChars = 0, as long as previousQuery is '' (fresh or just
\* reset), setQuery('') and the timer it arms never invoke the executor: the
\* empty value passes the length test and is suppressed as a duplicate.
C20_EmptyNeverDispatched ==
  [][(minChars = 0 /\ (previousQuery = <<>> \/ C20_FreshOrReset)
        /\ (C20_EmptyTimerFires \/ (currentQuery' = <<>> /\ calls'[1].op = "setQuery")))
       => /\ Len(requests') = Len(requests)
          /\ \A k \in DOMAIN calls' : calls'[k].op # "execute"]_vars

\* on a fresh orchestrator with minChars = 0 the timer armed by
\* setQuery('') has fired and nothing was invoked
C20_Witness ==
  /\ minChars = 0
  /\ calls = <<Call("timer", <<>>, Null)>>
  /\ requests = <<>>
  /\ previousQuery = <<>>

\* the normalized value as the claim describes it: the input, trimmed if
\* trimInput, then lowercased if lowercaseInput, is what inputProcessor (if
\* any) receives, and inputProcessor's output is the result as it stands
C19_Trimmed(v) == IF trimInput THEN trim(v) ELSE v
C19_Lowercased(v) ==
  IF lowercaseInput THEN toLowerCase(C19_Trimmed(v)) ELSE C19_Trimmed(v)
C19_Normalized(v) ==
  IF inputProcessor = "none" THEN C19_Lowercased(v)
  ELSE ApplyProcessor(inputProcessor, C19_Lowercased(v))

C19_SetQueryStores ==
  \A v \in RawInputs :
    setQuery(v) =>
      /\ currentQuery' = C19_Normalized(v)
      /\ Len(C19_Normalized(v)) >= minChars => timeoutId' = <<C19_Normalized(v)>>

C19_ExecutorReceives ==
  TimerFire =>
    \A k \in DOMAIN calls' : calls'[k].op = "execute" => calls'[k].q = timeoutId[1]

\* C19: normalization is trim, then lowercase, then inputProcessor, each
\* only when its option is set; the stored query and the value the executor
\* receives are inputProcessor's output, not trimmed or lowercased again.
C19_NormalizationOrder ==
  [][C19_SetQueryStores /\ C19_ExecutorReceives]_vars

\* with all three options set (inputProcessor = toUpperCase) the executor
\* was invoked with the upper-case value, which is also the stored query
C19_Witness ==
  /\ trimInput /\ lowercaseInput /\ inputProcessor = "toUpperCase"
  /\ LastOp = "timer"
  /\ \E k \in Ops("execute") : calls[k].q = <<"A">>
  /\ currentQuery = <<"A">>

\* C18: whenever a callback is invoked (at a request's start, success,
\* failure or cancellation) the function called is the one its slot holds at
\* that moment, so a callback replaced while the request was in flight or
\* the debounce timer pending is never the one called.
C18_LatestCallbackInvoked ==
  \A k \in DOMAIN calls :
    /\ calls[k].op = "onSearchStart" => calls[k].fn = onSearchStart
    /\ calls[k].op = "onSearchSuccess" => calls[k].fn = onSearchSuccess
    /\ calls[k].op = "onSearchError" => calls[k].fn = onSearchError
    /\ calls[k].op = "onSearchCanceled" => calls[k].fn = onSearchCanceled

\* the first request succeeded and the replacement of onSearchSuccess,
\* assigned after setQuery armed the timer for it, was the function called
C18_Witness ==
  /\ LastOp = "resolve" /\ LastId = 1 /\ Len(requests) = 1
  /\ \E k \in Ops("onSearchSuccess") : calls[k].fn = 2
  /\ onSearchStart = 1

\* C21: the hook's loading is true from the moment a dispatch starts, also
\* when the dispatch superseded a request that was still outstanding.
C21_HookLoadingWhileInFlight ==
  (Ops("execute") # {} /\ HookHandlersRun # {}) => HookLoading

\* the call of the log with the given name (there is exactly one)
C23_At(name) == CHOOSE k \in Ops(name) : TRUE

\* C23: in a dispatch that supersedes an outstanding request, onSearchStart
\* is invoked first, then the old handle is signalled, then onSearchCanceled
\* is invoked, then the executor is invoked with Q and the fresh handle,
\* which is the tracked one; loading is true, error is null and
\* previousQuery is Q.
C23_SupersedingOrder ==
  (Ops("execute") # {} /\ Ops("abort") # {}) =>
    /\ \A name \in {"onSearchStart", "abort", "onSearchCanceled", "execute"} :
         Cardinality(Ops(name)) = 1
    /\ C23_At("onSearchStart") < C23_At("abort")
    /\ C23_At("abort") < C23_At("onSearchCanceled")
    /\ C23_At("onSearchCanceled") < C23_At("execute")
    /\ calls[C23_At("execute")].id = Len(requests)
    /\ calls[C23_At("execute")].id # calls[C23_At("abort")].id
    /\ currentAbortController = Len(requests)
    /\ requests[calls[C23_At("abort")].id].aborted
    /\ ~requests[Len(requests)].aborted
    /\ isLoading /\ searchError = Null
    /\ previousQuery = calls[C23_At("execute")].q

\* the debounce timer has just dispatched a query and superseded a request
C23_Witness ==
  /\ LastOp = "timer"
  /\ Ops("abort") # {} /\ Ops("execute") # {} /\ Ops("onSearchStart") # {}

\* request id settles in this step
C24_Settles(id) ==
  requests[id].state = "pending" /\ requests'[id].state = "settled"

\* C24: (cancellation enabled) a request's settlement clears the tracked
\* handle only when the tracked handle is its own; the handle of a newer
\* dispatch stays tracked, belongs to a request that is still outstanding,
\* and a later cancel() signals that request.
C24_SettleKeepsNewerHandle ==
  [][enableCancellation =>
       /\ \A id \in DOMAIN requests :
            C24_Settles(id) =>
              /\ currentAbortController = id => currentAbortController' = Null
              /\ currentAbortController # id =>
                   /\ currentAbortController' = currentAbortController
                   /\ currentAbortController # Null =>
                        requests'[currentAbortController].state = "pending"
       /\ (calls'[1].op = "cancel" /\ currentAbortController # Null) =>
            /\ requests[currentAbortController].state = "pending"
            /\ requests'[currentAbortController].aborted]_vars

\* the superseded first request has just settled while the second request
\* is outstanding and its handle is still the tracked one
C24_Witness ==
  /\ LastOp \in {"resolve", "reject"} /\ LastId = 1
  /\ currentAbortController = 2
  /\ requests[2].state = "pending"

\* C25: when a superseded request settles while a newer dispatch is still
\* outstanding (pending and not cancelled), loading is not flipped to false.
C25_SupersededKeepsLoading ==
  [][\A id \in DOMAIN requests :
       ( /\ C24_Settles(id)
         /\ isLoading
         /\ \E j \in DOMAIN requests :
              j > id /\ requests[j].state = "pending" /\ ~requests[j].aborted )
       => isLoading']_vars

\* C26: right after a setQuery whose normalized value is shorter than
\* minChars, the debounce timer does not start a dispatch: the executor is
\* not invoked and onSearchStart is not fired.
C26_ShortQueryAbandonsTimer ==
  [][( /\ LastOp = "setQuery"
       /\ Len(currentQuery) < minChars
       /\ calls'[1].op = "timer" )
     => \A k \in DOMAIN calls' :
          calls'[k].op \notin {"execute", "onSearchStart"}]_vars

\* the requests that are outstanding and were not cancelled
C27_Outstanding ==
  {id \in DOMAIN requests :
     requests[id].state = "pending" /\ ~requests[id].aborted}

C29_NoCancellationWhenDisabled ==
  ~enableCancellation =>
    /\ currentAbortController = Null
    /\ \A id \in DOMAIN requests :
         ~requests[id].aborted /\ requests[id].controller = Null
    /\ Ops("abort") = {} /\ Ops("onSearchCanceled") = {}
    /\ \A k \in Ops("execute") : calls[k].id = Null
    /\ (LastOp = "cancel" \/
        (LastOp = "setQuery" /\ Len(currentQuery) < minChars)) =>
         Len(calls) = 1

\* cancellation is disabled and cancel() was just called while two requests
\* were running
C29_Witness ==
  /\ ~enableCancellation
  /\ LastOp = "cancel"
  /\ Cardinality(Pending(requests)) = 2

\* C30: cancel() with no request outstanding fires no callback and leaves
\* query, previousQuery, results, error and loading (and the rest of the
\* state) unchanged; so does a cancel() that directly follows a cancel().
C30_CancelIdempotent ==
  [][( /\ calls'[1].op = "cancel"
       /\ (C27_Outstanding = {} \/ LastOp = "cancel") )
     => /\ Len(calls') = 1
        /\ UNCHANGED <<currentQuery, previousQuery, searchResults,
                       searchError, isLoading>>
        /\ UNCHANGED <<currentAbortController, requests, timeoutId,
                       lastSetQuery, lastDispatched>>]_vars

\* a second cancel() has just run after the first one cancelled a request
\* that is still running
C30_Witness ==
  /\ enableCancellation
  /\ LastOp = "cancel" /\ Len(calls) = 1
  /\ \E id \in Pending(requests) : requests[id].aborted
  /\ currentAbortController = Null

\* C22: createSearchOptimizer with a missing executor returns no
\* orchestrator, so no setQuery, search or timer firing ever attempts a
\* dispatch without an executor.
C22_NoDispatchWithoutExecutor ==
  executor = "undefined" =>
    /\ Ops("onSearchStart") = {} /\ Ops("execute") = {}
    /\ searchError # TypeErrorObject

\* C28: each call of the debounced function re-arms the timer and replaces
\* the previously scheduled callback, so of n calls, each made before the
\* timer of the previous one fired, only the last one's timer runs func:
\* once, with the arguments of the last call, and not before delay has
\* elapsed since the last call.
C28_DebounceTrailing ==
  /\ \A i \in DOMAIN timers :
       /\ (timers[i].state = "armed" => i = Len(timers))
       /\ (timers[i].state = "cleared" => i < Len(timers))
  /\ timeoutId # <<>> <=> Armed # {}
  /\ LastOp = "debounced" =>
       /\ timers[Len(timers)] =
            [args |-> calls[1].q, age |-> 0, state |-> "armed"]
       /\ timeoutId = <<calls[1].q>>
  /\ Ops("func") # {} =>
       /\ Cardinality(Ops("func")) = 1
       /\ \A k \in Ops("func") :
            /\ calls[k].id = Len(timers)
            /\ calls[k].q = timers[Len(timers)].args
       /\ timers[Len(timers)].state = "fired"
       /\ timers[Len(timers)].age >= DebounceDelay

\* three calls in a row, each before the previous timer fired, and func has
\* just run for the third
C28_Witness ==
  /\ Len(timers) = 3
  /\ timers[1].state = "cleared" /\ timers[2].state = "cleared"
  /\ timers[3].state = "fired"
  /\ Ops("func") # {}

\* what a search() the gate rejected leaves behind: the query it tested is
\* too short or the one dispatched last, and no request is in its name
C31_GateRejected ==
  \/ Len(currentQuery) < minChars
  \/ currentQuery = previousQuery

C32_AbortCancelsOwnRequest ==
  [][\A i \in DOMAIN axiosCalls :
       ( /\ axiosCalls[i].state = "in flight"
         /\ ~axiosCalls[i].aborted
         /\ axiosCalls'[i].aborted )
       => /\ axiosCalls'[i].canceled = axiosCalls[i].canceled + 1
          /\ \A j \in DOMAIN axiosCalls \ {i} :
               axiosCalls'[j].canceled = axiosCalls[j].canceled]_vars

\* nothing is left to happen unless setQuery is called again: no debounce
\* timer is armed and every request the executor still owes was cancelled
C33_Settled ==
  /\ timeoutId = <<>>
  /\ \A i \in Pending(requests) : requests[i].aborted

\* C33: once the typing has ended on a query Q of at least minChars
\* characters, the timers have fired and the executor has resolved every
\* request that was not cancelled, results holds a payload and loading is
\* false, whatever was typed before.
C33_FinalResultSurfaced ==
  ( /\ C33_Settled
    /\ lastSetQuery = currentQuery
    /\ Len(currentQuery) >= minChars )
  => (searchResults # Null /\ ~isLoading)

\* C34: the step that follows reset() invokes neither the executor nor a
\* callback and leaves query, results, error and loading at their reset
\* values, also when it is the firing of a debounce timer that was pending
\* at the reset.
C34_NothingAfterReset ==
  [][( /\ LastOp = "reset"
       /\ calls'[1].op \in {"timer", "resolve", "reject"} )
     => /\ Len(calls') = 1
        /\ UNCHANGED <<currentQuery, searchResults, searchError, isLoading>>]_vars

\* the callbacks of the given kinds that the step invokes
C35_Invoked(names) == {k \in DOMAIN calls' : calls'[k].op \in names}

C36_DispatchOver(q) ==
  /\ lastDispatched = <<q>>
  /\ requests # <<>>
  /\ \/ requests[Len(requests)].state = "settled"
     \/ requests[Len(requests)].aborted

\* C36: after the dispatch for Q is over, a debounce timer firing for Q and
\* a search() with currentQuery = Q do not invoke the executor, previousQuery
\* being Q still.
C36_NoRetrySameQuery ==
  [][( /\ calls'[1].op \in {"timer", "search"}
       /\ C36_DispatchOver(calls'[1].q) )
     => /\ previousQuery = calls'[1].q
        /\ Len(calls') = 1
        /\ requests' = requests]_vars

\* search() was called for the query whose dispatch failed: nothing ran
C36_Witness ==
  /\ LastOp = "search" /\ Len(calls) = 1
  /\ calls[1].q = currentQuery /\ Len(currentQuery) >= minChars
  /\ searchError # Null
  /\ lastDispatched = <<currentQuery>>
  /\ Pending(requests) = {}

\* C37: reset() and cancel() leave the four callback slots unchanged, and
\* the dispatch that follows invokes the function registered before them.
C37_CallbacksSurviveReset ==
  [][/\ calls'[1].op \in {"reset", "cancel"} => UNCHANGED slots
     /\ LastOp \in {"reset", "cancel"} =>
          \A k \in DOMAIN calls' :
            calls'[k].op = "onSearchStart" => calls'[k].fn = onSearchStart]_vars

\* reset() has just run and the replacement callbacks registered before it
\* are still in their slots
C37_Witness ==
  /\ LastOp = "reset"
  /\ onSearchStart = 2 /\ onSearchSuccess = 2
  /\ onSearchError = 2 /\ onSearchCanceled = 2
====
